---- MODULE Spec2Model ----
(***************************************************************************)
(* Model of src/main.rs: a directed graph kept as an adjacency map         *)
(* (Graph.edges), the work-list traversal Graph::bfs, and the statistics   *)
(* that main derives from the distance map the traversal returns.          *)
(* max_shortest_path_length and min_shortest_path_length reduce the same   *)
(* map, change no state and are left out.                                  *)
(***************************************************************************)
EXTENDS Integers, Sequences, FiniteSets, TLC

\* Most add_edge calls made while loading.
MaxEdges == 5

\* Node identifiers (u32 in the source) that occur in the loaded records or
\* are asked for as a source.
Nodes == 0 .. 4

\* Records (from, to) the input file may hold, in any order and any number
\* of times: two branches of different length from 0 to 3, a self-loop, an
\* edge back to 0 and a node (3) that is only ever a target unless the back
\* edge is loaded.
EdgeRecords ==
    { <<0, 1>>, <<0, 2>>, <<1, 3>>, <<2, 4>>, <<4, 3>>, <<2, 2>>, <<3, 0>> }

VARIABLES
    edges,        \* Graph.edges: node -> sequence of out-neighbours
    loaded,       \* number of add_edge calls made so far
    pc,           \* position of main
    source,       \* source_node
    visited,      \* bfs: visited
    distances,    \* bfs: distances
    queue,        \* bfs: queue, a sequence of <<node, distance>>
    average,      \* average_shortest_path (an f64)
    deviation,    \* standard_deviation (an f64)
    median,       \* median_shortest_path
    distribution  \* shortest_path_distribution

vars == << edges, loaded, pc, source, visited, distances, queue,
           average, deviation, median, distribution >>

\* A let binding main has not reached yet, and one it has.
None == [kind |-> "none"]
Some(v) == [kind |-> "some", value |-> v]

\* The empty HashMap.
EmptyMap == [k \in {} |-> 0]

----------------------------------------------------------------------------
(* Graph *)

\* Graph::new
new == EmptyMap

\* self.edges.entry(from).or_insert(Vec::new()).push(to)
add_edge(g, from, to) ==
    IF from \in DOMAIN g
    THEN [g EXCEPT ![from] = Append(@, to)]
    ELSE g @@ (from :> << to >>)

\* self.edges.get(&node): Some(neighbors), or None rendered as no neighbours
\* since the loop body is skipped.
neighbors(g, node) == IF node \in DOMAIN g THEN g[node] ELSE << >>

\* HashMap::insert: adds the key or overwrites its value.
insert(m, k, v) ==
    IF k \in DOMAIN m THEN [m EXCEPT ![k] = v] ELSE m @@ (k :> v)

----------------------------------------------------------------------------
(* Graph::bfs *)

\* BfsSeed without visited.insert(source).
BfsSeedUnvisited(s) ==
    [ visited |-> {}, distances |-> EmptyMap, queue |-> << << s, 0 >> >> ]

\* The state bfs starts its loop in: visited = {source}, queue = [(source, 0)].
BfsSeed(s) ==
    [ visited |-> {s}, distances |-> EmptyMap, queue |-> << << s, 0 >> >> ]

\* pop reading the last element without removing it (Vec::last).
popKeep(q) == [ item |-> q[Len(q)], rest |-> q ]

\* Vec::pop: removes and returns the last element.
pop(q) == [ item |-> q[Len(q)], rest |-> SubSeq(q, 1, Len(q) - 1) ]

\* PushNeighbors without visited.insert(neighbor).
RECURSIVE PushNeighborsUnmarked(_, _, _, _, _)
PushNeighborsUnmarked(ns, i, distance, vis, q) ==
    IF i > Len(ns)
    THEN [ visited |-> vis, queue |-> q ]
    ELSE IF ns[i] \notin vis
         THEN PushNeighborsUnmarked(ns, i + 1, distance, vis,
                                    Append(q, << ns[i], distance + 1 >>))
         ELSE PushNeighborsUnmarked(ns, i + 1, distance, vis, q)

\* The for loop over the neighbours of the removed node, from index i on.
RECURSIVE PushNeighbors(_, _, _, _, _)
PushNeighbors(ns, i, distance, vis, q) ==
    IF i > Len(ns)
    THEN [ visited |-> vis, queue |-> q ]
    ELSE IF ns[i] \notin vis
         THEN PushNeighbors(ns, i + 1, distance, vis \cup {ns[i]},
                            Append(q, << ns[i], distance + 1 >>))
         ELSE PushNeighbors(ns, i + 1, distance, vis, q)

\* BfsIter with distances.insert moved inside the if let, so that only
\* nodes with out-edges are recorded.
BfsIterKeyedOnly(g, st) ==
    LET p        == pop(st.queue)
        node     == p.item[1]
        distance == p.item[2]
        pushed   == PushNeighbors(neighbors(g, node), 1, distance,
                                  st.visited, p.rest)
    IN  [ visited   |-> pushed.visited,
          distances |-> IF node \in DOMAIN g
                        THEN insert(st.distances, node, distance)
                        ELSE st.distances,
          queue     |-> pushed.queue ]

\* One iteration of the while loop; st.queue is not empty.
BfsIter(g, st) ==
    LET p        == pop(st.queue)
        node     == p.item[1]
        distance == p.item[2]
        pushed   == PushNeighbors(neighbors(g, node), 1, distance,
                                  st.visited, p.rest)
    IN  [ visited   |-> pushed.visited,
          distances |-> insert(st.distances, node, distance),
          queue     |-> pushed.queue ]

\* The while loop, run until the work-list is empty; fuel bounds the
\* unfolding and None is returned when it runs out.
RECURSIVE BfsRun(_, _, _)
BfsRun(g, st, fuel) ==
    IF st.queue = << >> THEN st.distances
    ELSE IF fuel = 0 THEN None
    ELSE BfsRun(g, BfsIter(g, st), fuel - 1)

\* More iterations than any run over Nodes whose work-list holds each node
\* at most once can make.
Fuel == 2 * Cardinality(Nodes) + 2

bfs(g, s) == BfsRun(g, BfsSeed(s), Fuel)

----------------------------------------------------------------------------
(* f64 arithmetic: values are kept exact, as a quotient of integers or the *)
(* square root of one, together with the two non-numbers a division by     *)
(* zero produces.                                                          *)

NaN == [kind |-> "nan"]
Inf == [kind |-> "inf"]

\* a as f64 / b as f64, for a, b >= 0: 0.0 / 0.0 is NaN and x / 0.0 is inf.
F64Div(a, b) ==
    IF b = 0
    THEN IF a = 0 THEN NaN ELSE Inf
    ELSE [kind |-> "num", num |-> a, den |-> b]

----------------------------------------------------------------------------
(* Statistics *)

\* HashMap::values collected in the map's iteration order, which is some
\* fixed order of the keys.
RECURSIVE values(_)
values(m) ==
    IF DOMAIN m = {} THEN << >>
    ELSE LET k == CHOOSE x \in DOMAIN m : TRUE
         IN  << m[k] >> \o values([x \in DOMAIN m \ {k} |-> m[x]])

\* Iterator::sum over a sequence of usize
RECURSIVE sum(_)
sum(xs) == IF xs = << >> THEN 0 ELSE Head(xs) + sum(Tail(xs))

\* self.edges.len()
len(g) == Cardinality(DOMAIN g)

\* Graph::average_shortest_path_length, given the map bfs returned
AverageOf(g, dist) == F64Div(sum(values(dist)), len(g))

average_shortest_path_length(g, s) == AverageOf(g, bfs(g, s))

\* The fold of standard_deviation: the sum of (distance - average)^2 with
\* average = avg.num / avg.den, as a numerator over avg.den^2.
RECURSIVE SquaredDifferences(_, _)
SquaredDifferences(xs, avg) ==
    IF xs = << >> THEN 0
    ELSE (Head(xs) * avg.den - avg.num) * (Head(xs) * avg.den - avg.num)
         + SquaredDifferences(Tail(xs), avg)

\* Graph::standard_deviation: NaN and inf propagate through the fold, the
\* division and the square root.
standard_deviation(g, s) ==
    LET dist      == bfs(g, s)
        num_nodes == len(g)
        avg       == average_shortest_path_length(g, s)
    IN  IF avg.kind # "num" THEN avg
        ELSE [kind |-> "sqrt",
              num  |-> SquaredDifferences(values(dist), avg),
              den  |-> avg.den * avg.den * num_nodes]

\* Inserts x into the ascending sequence xs.
RECURSIVE SortedInsert(_, _)
SortedInsert(xs, x) ==
    IF xs = << >> THEN << x >>
    ELSE IF x <= Head(xs) THEN << x >> \o xs
    ELSE << Head(xs) >> \o SortedInsert(Tail(xs), x)

\* slice::sort
RECURSIVE sort(_)
sort(xs) == IF xs = << >> THEN << >> ELSE SortedInsert(sort(Tail(xs)), Head(xs))

\* MedianOf without the even case: always distances[n / 2].
MedianOfUpper(sorted) == sorted[Len(sorted) \div 2 + 1]

\* The selection median_shortest_path_length makes in the sorted vector;
\* the vector is indexed from 0 in the source and from 1 here.
MedianOf(sorted) ==
    LET n == Len(sorted)
    IN  IF n % 2 = 0
        THEN (sorted[n \div 2] + sorted[n \div 2 + 1]) \div 2
        ELSE sorted[n \div 2 + 1]

\* Graph::median_shortest_path_length
median_shortest_path_length(g, s) == MedianOf(sort(values(bfs(g, s))))

\* Count storing 1 instead of adding 1.
CountOverwrite(d, distance) == insert(d, distance, 1)

\* *distribution.entry(distance).or_insert(0) += 1
Count(d, distance) ==
    IF distance \in DOMAIN d
    THEN [d EXCEPT ![distance] = @ + 1]
    ELSE d @@ (distance :> 1)

\* The for loop of shortest_path_length_distribution
RECURSIVE Tally(_, _)
Tally(xs, d) == IF xs = << >> THEN d ELSE Tally(Tail(xs), Count(d, Head(xs)))

\* Graph::shortest_path_length_distribution
shortest_path_length_distribution(g, s) == Tally(values(bfs(g, s)), EmptyMap)

----------------------------------------------------------------------------
(* main *)

Init ==
    /\ edges = new
    /\ loaded = 0
    /\ pc = "load"
    /\ source = 0
    /\ visited = {}
    /\ distances = EmptyMap
    /\ queue = << >>
    /\ average = None
    /\ deviation = None
    /\ median = None
    /\ distribution = None

\* One record of the file: graph.add_edge(from_node, to_node)
AddEdge(from, to) ==
    /\ pc = "load"
    /\ loaded < MaxEdges
    /\ edges' = add_edge(edges, from, to)
    /\ loaded' = loaded + 1
    /\ UNCHANGED << pc, source, visited, distances, queue,
                    average, deviation, median, distribution >>

\* The file is read to its end, the source node is selected and
\* average_shortest_path_length enters bfs.
BfsCall(s) ==
    /\ pc = "load"
    /\ pc' = "bfs"
    /\ source' = s
    /\ visited' = BfsSeed(s).visited
    /\ distances' = BfsSeed(s).distances
    /\ queue' = BfsSeed(s).queue
    /\ UNCHANGED << edges, loaded, average, deviation, median, distribution >>

\* One iteration of the while loop of bfs.
BfsLoop ==
    /\ pc = "bfs"
    /\ queue # << >>
    /\ LET st == BfsIter(edges, [visited |-> visited, distances |-> distances,
                                 queue |-> queue])
       IN  /\ visited' = st.visited
           /\ distances' = st.distances
           /\ queue' = st.queue
    /\ UNCHANGED << edges, loaded, pc, source,
                    average, deviation, median, distribution >>

\* queue.pop() is None: bfs returns distances and
\* average_shortest_path_length divides their sum by the number of keys.
BfsReturn ==
    /\ pc = "bfs"
    /\ queue = << >>
    /\ average' = AverageOf(edges, distances)
    /\ pc' = "deviation"
    /\ UNCHANGED << edges, loaded, source, visited, distances, queue,
                    deviation, median, distribution >>

\* graph.standard_deviation(source_node)
StandardDeviation ==
    /\ pc = "deviation"
    /\ deviation' = standard_deviation(edges, source)
    /\ pc' = "median"
    /\ UNCHANGED << edges, loaded, source, visited, distances, queue,
                    average, median, distribution >>

\* graph.median_shortest_path_length(source_node)
Median ==
    /\ pc = "median"
    /\ median' = Some(median_shortest_path_length(edges, source))
    /\ pc' = "distribution"
    /\ UNCHANGED << edges, loaded, source, visited, distances, queue,
                    average, deviation, distribution >>

\* graph.shortest_path_length_distribution(source_node)
Distribution ==
    /\ pc = "distribution"
    /\ distribution' = Some(shortest_path_length_distribution(edges, source))
    /\ pc' = "done"
    /\ UNCHANGED << edges, loaded, source, visited, distances, queue,
                    average, deviation, median >>

Next ==
    \/ \E e \in EdgeRecords : AddEdge(e[1], e[2])
    \/ \E s \in Nodes : BfsCall(s)
    \/ BfsLoop
    \/ BfsReturn
    \/ StandardDeviation
    \/ Median
    \/ Distribution

Spec == Init /\ [][Next]_vars

\* bfs is straight-line, single-threaded code: once it is entered, the next
\* iteration of its loop, or its return, is always taken.
FairSpec == Spec /\ WF_vars(BfsLoop) /\ WF_vars(BfsReturn)

----------------------------------------------------------------------------
(* Reference notions the properties are stated with *)

\* bfs has returned its map to main.
Returned == pc \in {"deviation", "median", "distribution", "done"}

\* The elements of a sequence.
Range(xs) == { xs[i] : i \in 1 .. Len(xs) }

\* Nodes one forward edge away from a node of S.
Successors(g, S) == UNION { Range(neighbors(g, u)) : u \in S }

\* Nodes at which a forward walk of exactly k edges from s ends.
RECURSIVE WalkEnds(_, _, _)
WalkEnds(g, s, k) == IF k = 0 THEN {s} ELSE Successors(g, WalkEnds(g, s, k - 1))

\* A shortest forward path visits no node twice.
Longest == Cardinality(Nodes) - 1

\* Nodes reachable from s by following edges forward.
Reachable(g, s) == UNION { WalkEnds(g, s, k) : k \in 0 .. Longest }

\* The minimum hop count of a reachable node n.
HopCount(g, s, n) ==
    CHOOSE k \in 0 .. Longest :
        /\ n \in WalkEnds(g, s, k)
        /\ \A j \in 0 .. k - 1 : n \notin WalkEnds(g, s, j)

\* The same traversal with first-in-first-out removal from the work-list.
PopFront(q) == [ item |-> Head(q), rest |-> Tail(q) ]

FifoIter(g, st) ==
    LET p      == PopFront(st.queue)
        pushed == PushNeighbors(neighbors(g, p.item[1]), 1, p.item[2],
                                st.visited, p.rest)
    IN  [ visited   |-> pushed.visited,
          distances |-> insert(st.distances, p.item[1], p.item[2]),
          queue     |-> pushed.queue ]

RECURSIVE FifoRun(_, _, _)
FifoRun(g, st, fuel) ==
    IF st.queue = << >> THEN st.distances
    ELSE IF fuel = 0 THEN None
    ELSE FifoRun(g, FifoIter(g, st), fuel - 1)

FifoBfs(g, s) == FifoRun(g, BfsSeed(s), Fuel)

\* The nodes on the work-list.
Queued == { queue[i][1] : i \in 1 .. Len(queue) }

\* The k-th smallest value of the map m, counted from 1 and with
\* multiplicity.
Kth(m, k) ==
    CHOOSE v \in Range(values(m)) :
        /\ Cardinality({ n \in DOMAIN m : m[n] < v }) < k
        /\ k <= Cardinality({ n \in DOMAIN m : m[n] <= v })

----------------------------------------------------------------------------
(* Properties *)

\* C1: every entry (N, d) of the map bfs returns is the minimum hop count:
\* a forward path of exactly d edges leads from the source to N and no
\* forward path with fewer edges does.
BfsMinimal ==
    Returned =>
        \A n \in DOMAIN distances :
            /\ n \in WalkEnds(edges, source, distances[n])
            /\ \A j \in 0 .. distances[n] - 1 : n \notin WalkEnds(edges, source, j)

\* C2: the map bfs returns with last-in-first-out removal equals the map
\* the same traversal returns with first-in-first-out removal.
RemovalOrderIrrelevant == Returned => distances = FifoBfs(edges, source)

\* C3: the keys of the map bfs returns are exactly the nodes reachable from
\* the source along forward edges, the source and the nodes that are no key
\* of the adjacency map included.
KeysAreReachable == Returned => DOMAIN distances = Reachable(edges, source)

\* A returned map with a key other than the source that has no out-edges,
\* while some node that occurs in the graph is out of reach.
KeysAreReachableWitness ==
    /\ Returned
    /\ \E n \in DOMAIN distances : n # source /\ n \notin DOMAIN edges
    /\ \E n \in DOMAIN edges : n \notin DOMAIN distances

\* C4: the map bfs returns holds the source at distance 0, whatever cycles
\* lead back to it, and is exactly {source: 0} when the source has no
\* out-edges.
SourceAtZero ==
    Returned =>
        /\ source \in DOMAIN distances
        /\ distances[source] = 0
        /\ (source \notin DOMAIN edges => distances = (source :> 0))

\* A returned map for a source that lies on a cycle of two or more edges.
SourceAtZeroWitness ==
    /\ Returned
    /\ \E n \in DOMAIN distances :
           n # source /\ source \in Range(neighbors(edges, n))

\* A returned map for a source without out-edges in a graph that has edges.
SourceSinkWitness ==
    /\ Returned
    /\ source \notin DOMAIN edges
    /\ source \in Successors(edges, DOMAIN edges)

\* C5: once bfs is entered its loop empties the work-list and bfs returns.
BfsTerminates == (pc = "bfs") ~> Returned

\* bfs has returned on a graph in which a reached node has a self-loop and
\* a reached node has the same out-edge twice.
BfsTerminatesWitness ==
    /\ Returned
    /\ \E n \in DOMAIN distances : n \in Range(neighbors(edges, n))
    /\ \E n \in DOMAIN distances :
           \E i, j \in 1 .. Len(neighbors(edges, n)) :
               i # j /\ edges[n][i] = edges[n][j]

\* C6: one more add_edge call never increases the distance bfs computes
\* for a node that was in the map before the call.
AddEdgeMonotone ==
    Returned =>
        \A e \in EdgeRecords :
            \A n \in DOMAIN distances :
                bfs(add_edge(edges, e[1], e[2]), source)[n] <= distances[n]

\* C7: on a graph without edges average_shortest_path_length and
\* standard_deviation yield an error outcome, not the floating-point value
\* of a division by zero.
EmptyGraphIsError ==
    (pc = "done" /\ len(edges) = 0) =>
        /\ average.kind \notin {"nan", "inf"}
        /\ deviation.kind \notin {"nan", "inf"}

\* C8: with n >= 1 values in the returned map, the median is the value of
\* rank n/2 (from 0) when n is odd and the truncated mean of the values of
\* ranks n/2 - 1 and n/2 when n is even; the ranks used lie in 0 .. n-1.
MedianIsCentral ==
    pc = "done" =>
        LET n == Cardinality(DOMAIN distances)
        IN  /\ n >= 1
            /\ n % 2 = 1 =>
                   /\ n \div 2 \in 0 .. n - 1
                   /\ median.value = Kth(distances, n \div 2 + 1)
            /\ n % 2 = 0 =>
                   /\ n \div 2 - 1 \in 0 .. n - 1
                   /\ n \div 2 \in 0 .. n - 1
                   /\ median.value = (Kth(distances, n \div 2)
                                      + Kth(distances, n \div 2 + 1)) \div 2

\* A median of an even number of values whose two central values differ by
\* an odd amount, so that the division truncates.
MedianIsCentralWitness ==
    /\ pc = "done"
    /\ LET n == Cardinality(DOMAIN distances)
       IN  /\ n >= 4
           /\ n % 2 = 0
           /\ (Kth(distances, n \div 2) + Kth(distances, n \div 2 + 1)) % 2 = 1

\* C9: the distribution has one count per distance value of the returned
\* map, the number of nodes recorded at that distance, and the counts sum
\* to the size of the map.
DistributionCounts ==
    pc = "done" =>
        LET d == distribution.value
        IN  /\ DOMAIN d = { distances[n] : n \in DOMAIN distances }
            /\ \A v \in DOMAIN d :
                   d[v] = Cardinality({ n \in DOMAIN distances : distances[n] = v })
            /\ sum(values(d)) = Cardinality(DOMAIN distances)

\* A distribution over three or more distance values, one of them shared
\* by two nodes or more.
DistributionCountsWitness ==
    /\ pc = "done"
    /\ Cardinality(DOMAIN distribution.value) >= 3
    /\ \E v \in DOMAIN distribution.value : distribution.value[v] >= 2

\* What holds of the work-list and the map throughout the loop of bfs.
WorkListInv ==
    pc # "load" =>
        /\ \A i, j \in 1 .. Len(queue) : queue[i][1] = queue[j][1] => i = j
        /\ Queued \cap DOMAIN distances = {}
        /\ visited = Queued \cup DOMAIN distances
        /\ \A i \in 1 .. Len(queue) :
               /\ queue[i][1] \in WalkEnds(edges, source, queue[i][2])
               /\ queue[i][2] >= HopCount(edges, source, queue[i][1])
        /\ \A n \in DOMAIN distances :
               /\ n \in WalkEnds(edges, source, distances[n])
               /\ distances[n] >= HopCount(edges, source, n)

\* What holds of every step of the loop of bfs.
WorkListStep ==
    /\ \A n \in DOMAIN distances :
           n \in DOMAIN distances' /\ distances'[n] = distances[n]
    /\ pc = "bfs" =>
           \A i \in 1 .. Len(queue') :
               \/ i <= Len(queue) /\ queue'[i] = queue[i]
               \/ queue'[i][1] \notin visited /\ queue'[i][1] \in visited'

\* C10: in the loop of bfs a node is pushed only when it is added to
\* visited, hence at most once, an entry of the map is never overwritten,
\* and every pair (N, d) on the work-list or in the map has a forward walk
\* of exactly d edges from the source to N, so d is at least the hop count.
WorkListSound == [](WorkListInv) /\ [][WorkListStep]_vars

\* The loop with two nodes on the work-list, the later of which is the
\* target of edges from two visited nodes and is recorded farther from the
\* source than its hop count.
WorkListSoundWitness ==
    /\ pc = "bfs"
    /\ Len(queue) >= 2
    /\ LET last == queue[Len(queue)]
       IN  /\ last[2] > HopCount(edges, source, last[1])
           /\ \E u, v \in visited :
                  /\ u # v
                  /\ last[1] \in Range(neighbors(edges, u))
                  /\ last[1] \in Range(neighbors(edges, v))

====
